---- MODULE Spec2Model ----
(***************************************************************************)
(* RemoteDesktopClient (src/services/remote-desktop-client.service.ts).    *)
(*                                                                         *)
(* The service owns one protocol engine (guacamole Client) and one tunnel, *)
(* an application state, a state channel (BehaviorSubject) and a clipboard *)
(* channel (ReplaySubject(1)).  The engine, the tunnel and the stream      *)
(* readers are external: they call back into the five slots the service    *)
(* binds, at any time and with any code, and an engine call (connect,      *)
(* disconnect) may deliver raw state events to the slots before it returns.*)
(*                                                                         *)
(* Every public operation and every callback is one action.  The history   *)
(* variables op, preState and trace record the last operation, the         *)
(* application state it started from and the ordered effects it had;       *)
(* published records whether the state channel was ever published on,      *)
(* lastClip the last clipboard payload, errored the first error state of   *)
(* the current attempt, applied the state the last handled event named and *)
(* inserted the entries the caller wrote into the options object.          *)
(***************************************************************************)
EXTENDS Integers, Sequences, FiniteSets, TLC

VARIABLES
    state,          \* private state (line 72)
    onStateChange,  \* value held by the BehaviorSubject (line 50)
    onClipboard,    \* replay buffer of the ReplaySubject(1) (line 52): <<>> or <<payload>>
    slots,          \* which of the five callback slots hold a bound handler
    streams,        \* inbound clipboard streams of the engine and their readers
    options,        \* private options (line 74): the caller's object, in property order
    screen,         \* window.screen: the geometry of the display
    stateSubs,      \* subscribers of the state channel, in subscription order
    clipSubs,       \* subscribers of the clipboard channel, in subscription order
    lastClip,       \* history: the payload last published on the clipboard channel, if any
    errored,        \* history: the first error state set since the last connect(), if any
    applied,        \* history: the state named by the last handled event that names one
    inserted,       \* history: the entries the caller wrote into options, in that order
    published,      \* history: setState has published on the state channel
    op,             \* history: the last operation and its inputs
    preState,       \* history: the application state before the last operation
    trace           \* history: the ordered effects of the last operation

vars ==
    <<state, onStateChange, onClipboard, slots, streams, options, screen, stateSubs,
      clipSubs, lastClip, errored, applied, inserted, published, op, preState, trace>>

----------------------------------------------------------------------------
(* Bounds of the model *)

\* inbound clipboard streams that can be open at once
MaxStreams == 2
\* chunks the open streams have delivered and not yet ended
MaxChunks == 2
\* raw state events an engine call delivers before it returns
MaxSync == 1
\* subscribers of each channel
MaxSubs == 1
\* entries the caller writes into the options object
MaxOptions == 2

----------------------------------------------------------------------------
(* RemoteDesktopClient.STATE, lines 7-48 (STATE is a reserved word) *)

STATES ==
    [IDLE |-> "IDLE", CONNECTING |-> "CONNECTING", WAITING |-> "WAITING",
     CONNECTED |-> "CONNECTED", DISCONNECTED |-> "DISCONNECTED",
     CLIENT_ERROR |-> "CLIENT_ERROR", TUNNEL_ERROR |-> "TUNNEL_ERROR"]

AppStates == {STATES[k] : k \in DOMAIN STATES}

\* initial value of the BehaviorSubject, line 50
onStateChangeInitial_Idle == STATES.IDLE
onStateChangeInitial == STATES.CONNECTING

\* initial value of the private field, line 72
stateInitial == STATES.IDLE

----------------------------------------------------------------------------
(* Inputs *)

\* raw codes the engine can hand to client.onstatechange: 0..5 are the
\* engine's states, 6 stands for any unrecognised code
ClientCodes == {0, 1, 2, 3, 4, 5, 6}
\* raw codes the tunnel can hand to tunnel.onstatechange: 1 and 2 are handled,
\* 0 and 3 stand for any other code
TunnelCodes == {0, 1, 2, 3}

Raw(src, code) == [src |-> src, code |-> code]
RawEvents == {Raw("client", c) : c \in ClientCodes} \cup {Raw("tunnel", c) : c \in TunnelCodes}

RECURSIVE SeqsUpTo(_, _)
SeqsUpTo(S, n) ==
    IF n = 0 THEN {<<>>}
    ELSE LET shorter == SeqsUpTo(S, n - 1)
         IN shorter \cup {Append(q, x) : q \in {r \in shorter : Len(r) = n - 1}, x \in S}

\* The state changes an engine call makes before it returns: connect() enters
\* "connecting" (client 1, tunnel 1), disconnect() enters "disconnecting",
\* closes the tunnel and ends "disconnected" (client 4, tunnel 2, client 5);
\* the codes are named at lines 235, 246, 247, 259 and 263
SyncEvents ==
    {Raw("client", 1), Raw("tunnel", 1), Raw("client", 4), Raw("tunnel", 2), Raw("client", 5)}

\* what an engine call can deliver to the slots before it returns
SyncDeliveries == SeqsUpTo(SyncEvents, MaxSync)

Subscribers == 1..MaxSubs

----------------------------------------------------------------------------
(* Effects recorded in trace *)

Eff(e, a) == [e |-> e, a |-> a]
None == <<>>

IsPub(x) == x.e = "pub"
\* the values published on the state channel by the last operation, in order
Published(tr) ==
    LET pubs == SelectSeq(tr, IsPub) IN [i \in 1..Len(pubs) |-> pubs[i].a]

IsClip(x) == x.e = "clip"
\* the payloads published on the clipboard channel by the last operation
ClipPublished(tr) ==
    LET clips == SelectSeq(tr, IsClip) IN [i \in 1..Len(clips) |-> clips[i].a]

\* positions of the effects of kind e
Positions(tr, e) == {i \in 1..Len(tr) : tr[i].e = e}

----------------------------------------------------------------------------
(* The handshake configuration: JavaScript objects, URLSearchParams *)

\* a value of an option: null, a number or a string (a sequence of characters)
JsNull == [t |-> "null", s |-> <<>>, n |-> 0]
JsNum(n) == [t |-> "number", s |-> <<>>, n |-> n]
JsStr(s) == [t |-> "string", s |-> s, n |-> 0]

DigitChars == <<"0", "1", "2", "3", "4", "5", "6", "7", "8", "9">>
DigitValue(c) == CHOOSE d \in 0..9 : DigitChars[d + 1] = c

RECURSIVE Digits(_)
\* the decimal digits of a natural number
Digits(n) == IF n < 10 THEN <<DigitChars[n + 1]>>
             ELSE Digits(n \div 10) \o <<DigitChars[(n % 10) + 1]>>

\* the string a value is converted to by params.set(key, value), line 195
ToUSVString(v) ==
    CASE v.t = "null" -> <<"n", "u", "l", "l">>
      [] v.t = "number" -> Digits(v.n)
      [] v.t = "string" -> v.s

\* a property key that is an array index: the canonical decimal form of a
\* natural number
IsArrayIndex(k) ==
    /\ Len(k) > 0
    /\ \A i \in 1..Len(k) : \E d \in 0..9 : DigitChars[d + 1] = k[i]
    /\ Len(k) > 1 => k[1] # "0"

RECURSIVE IndexOf(_)
\* the number an array index key denotes
IndexOf(k) == IF k = <<>> THEN 0
              ELSE 10 * IndexOf(SubSeq(k, 1, Len(k) - 1)) + DigitValue(k[Len(k)])

Entry(k, v) == [key |-> k, value |-> v]

\* A JavaScript object is the sequence of its own properties in property
\* order: array index keys in ascending numeric order, then the other keys
\* in the order they were created.  obj[k] = v:
ObjSet(obj, k, v) ==
    IF \E i \in 1..Len(obj) : obj[i].key = k
    THEN [i \in 1..Len(obj) |-> IF obj[i].key = k THEN Entry(k, v) ELSE obj[i]]
    ELSE IF IsArrayIndex(k)
    THEN LET n == Cardinality({i \in 1..Len(obj) :
                      IsArrayIndex(obj[i].key) /\ IndexOf(obj[i].key) < IndexOf(k)})
         IN  SubSeq(obj, 1, n) \o <<Entry(k, v)>> \o SubSeq(obj, n + 1, Len(obj))
    ELSE Append(obj, Entry(k, v))

RECURSIVE Spread(_, _)
\* { ...obj, ...src }: the own properties of src are written into obj in the
\* property order of src (line 208).  The object after each write is bound
\* as a value (CHOOSE over a singleton), so that it is computed once
Spread(obj, src) ==
    IF src = <<>> THEN obj
    ELSE CHOOSE result \in {Spread(written, Tail(src)) :
                                written \in {ObjSet(obj, Head(src).key, Head(src).value)}} : TRUE

\* an object literal with the entries es, written in that order
ObjectLiteral(es) == Spread(<<>>, es)

\* URLSearchParams.set(name, value), line 195: the first pair of that name
\* gets the value and the others are removed, or the pair is appended
ParamsSet(params, name, value) ==
    IF \E i \in 1..Len(params) : params[i].key = name
    THEN LET first == CHOOSE i \in 1..Len(params) :
                          /\ params[i].key = name
                          /\ \A j \in 1..(i - 1) : params[j].key # name
             IsKept(x) == x.key # name
         IN  SelectSeq(SubSeq(params, 1, first - 1), IsKept)
             \o <<Entry(name, value)>>
             \o SelectSeq(SubSeq(params, first + 1, Len(params)), IsKept)
    ELSE Append(params, Entry(name, value))

\* application/x-www-form-urlencoded: the bytes of one character
FormEncodeChar(c) ==
    CASE c = " " -> <<"+">>
      [] c = "/" -> <<"%", "2", "F">>
      [] c = "&" -> <<"%", "2", "6">>
      [] c = "=" -> <<"%", "3", "D">>
      [] OTHER -> <<c>>

RECURSIVE FormEncode(_)
FormEncode(str) == IF str = <<>> THEN <<>>
                   ELSE FormEncodeChar(Head(str)) \o FormEncode(Tail(str))

RECURSIVE ParamsToString(_)
\* URLSearchParams.toString(), line 198: name=value pairs joined by &
ParamsToString(params) ==
    IF params = <<>> THEN <<>>
    ELSE FormEncode(Head(params).key) \o <<"=">> \o FormEncode(Head(params).value)
         \o (IF Tail(params) = <<>> THEN <<>> ELSE <<"&">> \o ParamsToString(Tail(params)))

RECURSIVE SetAll(_, _)
\* the for-in loop of buildQueryString, lines 193-197: every own property of
\* obj, in property order
SetAll(params, obj) ==
    IF obj = <<>> THEN params
    ELSE CHOOSE result \in {SetAll(set, Tail(obj)) :
                                set \in {ParamsSet(params, Head(obj).key,
                                                   ToUSVString(Head(obj).value))}} : TRUE

\* buildQueryString, lines 191-199
buildQueryString(obj) ==
    CHOOSE result \in {ParamsToString(params) : params \in {SetAll(<<>>, obj)}} : TRUE

\* calculateDimensions, lines 184-189
calculateDimensions == [height |-> screen.height, width |-> screen.width]

ID == <<"I", "D">>
WIDTH == <<"W", "I", "D", "T", "H">>
HEIGHT == <<"H", "E", "I", "G", "H", "T">>
AUDIO == <<"A", "U", "D", "I", "O">>
IMAGE == <<"I", "M", "A", "G", "E">>
ImagePng == <<"i", "m", "a", "g", "e", "/", "p", "n", "g">>
AudioL16 == <<"a", "u", "d", "i", "o", "/", "L", "1", "6">>

\* the default options of buildConfiguration, lines 203-208
DefaultOptions(dimensions) ==
    <<Entry(ID, JsNull),
      Entry(WIDTH, JsNum(dimensions.width)),
      Entry(HEIGHT, JsNum(dimensions.height)),
      Entry(AUDIO, JsStr(AudioL16)),
      Entry(IMAGE, JsStr(ImagePng))>>

\* buildConfiguration, lines 201-212
buildConfiguration_DefaultsWin ==
    buildQueryString(Spread(options, DefaultOptions(calculateDimensions)))
buildConfiguration ==
    LET dimensions == calculateDimensions
    IN  CHOOSE result \in {buildQueryString(merged) :
                merged \in {Spread(ObjectLiteral(DefaultOptions(dimensions)), options)}} : TRUE

\* the keys and values the caller writes into the options object
DPI == <<"D", "P", "I">>
Key7 == <<"7">>
Key10 == <<"1", "0">>
OptionKeys == {WIDTH, DPI, Key7, Key10}
OptionValues == {JsNum(800), JsStr(<<"a", "/", "b">>)}
\* what the caller writes, in the order of writing
OptionInsertions ==
    SeqsUpTo({Entry(k, v) : k \in OptionKeys, v \in OptionValues}, MaxOptions)

\* window.screen
Screen(w, h) == [width |-> w, height |-> h]
DefaultScreen == Screen(1024, 768)
Screens == {DefaultScreen, Screen(1280, 720)}

----------------------------------------------------------------------------
(* The service as a record m = [state, chan, slots, trace], threaded       *)
(* through the statements of a method in program order                     *)

Machine(st, ch, sl, tr) == [state |-> st, chan |-> ch, slots |-> sl, trace |-> tr]

SlotNames == {"client.onerror", "client.onstatechange", "client.onclipboard",
              "tunnel.onerror", "tunnel.onstatechange"}

\* BehaviorSubject.next(v): the value is kept for replay and handed to every
\* current subscriber, in subscription order (line 178)
Next_onStateChange(m, v) ==
    [m EXCEPT !.chan = v,
              !.trace = @ \o <<Eff("pub", v)>>
                          \o [i \in 1..Len(stateSubs) |-> Eff("recv", <<stateSubs[i], v>>)]]

\* setState, lines 176-179
setState_PublishFirst(m, s) == [Next_onStateChange(m, m.state) EXCEPT !.state = s]
setState_DistinctOnly(m, s) ==
    IF m.state = s THEN m ELSE Next_onStateChange([m EXCEPT !.state = s], s)
setState(m, s) ==
    LET m1 == [m EXCEPT !.state = s] IN Next_onStateChange(m1, m1.state)

\* handleClientStateChange, lines 228-250
handleClientStateChange_Code1(m, code) ==
    CASE code = 0 -> setState(m, STATES.IDLE)
      [] code = 1 -> setState(m, STATES.CONNECTING)
      [] code = 2 -> setState(m, STATES.WAITING)
      [] code = 3 -> setState(m, STATES.CONNECTED)
      [] OTHER -> m
handleClientStateChange_FromWaiting(m, code) ==
    CASE code = 0 -> setState(m, STATES.IDLE)
      [] code = 2 -> setState(m, STATES.WAITING)
      [] code = 3 /\ m.state = STATES.WAITING -> setState(m, STATES.CONNECTED)
      [] OTHER -> m
handleClientStateChange_NoIdle(m, code) ==
    CASE code = 2 -> setState(m, STATES.WAITING)
      [] code = 3 -> setState(m, STATES.CONNECTED)
      [] OTHER -> m
handleClientStateChange(m, code) ==
    CASE code = 0 -> setState(m, STATES.IDLE)
      [] code = 1 -> m
      [] code = 2 -> setState(m, STATES.WAITING)
      [] code = 3 -> setState(m, STATES.CONNECTED)
      [] code \in {4, 5} -> m
      [] OTHER -> m

\* handleTunnelStateChange, lines 257-268
handleTunnelStateChange_DefaultCloses(m, code) ==
    CASE code = 1 -> setState(m, STATES.CONNECTING)
      [] OTHER -> setState(m, STATES.DISCONNECTED)
handleTunnelStateChange(m, code) ==
    CASE code = 1 -> setState(m, STATES.CONNECTING)
      [] code = 2 -> setState(m, STATES.DISCONNECTED)
      [] OTHER -> m

\* The engine or the tunnel fires a state-change slot: the bound handler runs,
\* an unbound slot drops the event (lines 216, 219)
Deliver(m, ev) ==
    LET slot == IF ev.src = "client" THEN "client.onstatechange" ELSE "tunnel.onstatechange"
        m1 == [m EXCEPT !.trace = Append(@, Eff("raw", ev))]
    IN  IF ~m.slots[slot] THEN [m EXCEPT !.trace = Append(@, Eff("dropped", ev))]
        ELSE IF ev.src = "client" THEN handleClientStateChange(m1, ev.code)
        ELSE handleTunnelStateChange(m1, ev.code)

RECURSIVE DeliverAll(_, _)
DeliverAll(m, evs) ==
    IF evs = <<>> THEN m ELSE DeliverAll(Deliver(m, Head(evs)), Tail(evs))

\* client.disconnect() of the engine: it may fire state-change slots before
\* it returns (line 164)
EngineDisconnect(m, sync) ==
    DeliverAll([m EXCEPT !.trace = Append(@, Eff("client.disconnect", None))], sync)

\* client.connect(configuration) of the engine (line 172)
EngineConnect(m, configuration, sync) ==
    DeliverAll([m EXCEPT !.trace = Append(@, Eff("client.connect", configuration))], sync)

\* disconnect, lines 163-165
disconnect_SetsDisconnected(m, sync) == setState(EngineDisconnect(m, sync), STATES.DISCONNECTED)
disconnect(m, sync) == EngineDisconnect(m, sync)

\* bindEventHandlers, lines 214-220
bindEventHandlers(m) ==
    [m EXCEPT !.slots = [n \in SlotNames |-> TRUE],
              !.trace = Append(@, Eff("bind", None))]

\* connect, lines 172-173, with the configuration of line 171
connect_SetsConnecting(m, configuration, sync) ==
    setState(bindEventHandlers(EngineConnect(m, configuration, sync)), STATES.CONNECTING)
connect_BindFirst(m, configuration, sync) ==
    EngineConnect(bindEventHandlers(m), configuration, sync)
connect(m, configuration, sync) == bindEventHandlers(EngineConnect(m, configuration, sync))

\* handleClientError, lines 222-226
handleClientError_StateFirst(m, sync) == disconnect(setState(m, STATES.CLIENT_ERROR), sync)
handleClientError(m, sync) == setState(disconnect(m, sync), STATES.CLIENT_ERROR)

\* handleTunnelError, lines 252-255
handleTunnelError_StateFirst(m, sync) == disconnect(setState(m, STATES.TUNNEL_ERROR), sync)
handleTunnelError(m, sync) == setState(disconnect(m, sync), STATES.TUNNEL_ERROR)

\* getState, lines 79-81
getState == state

\* isState, lines 83-85
isState(s) == s = state

----------------------------------------------------------------------------
(* Clipboard: text values, MIME types, streams and their readers *)

\* a JavaScript value handed to sendClipboard or published on the channel:
\* a string (a sequence of characters) or undefined
Str(s) == [t |-> "string", s |-> s]
Undefined == [t |-> "undefined", s |-> <<>>]

\* if (text), line 157: undefined and the empty string are falsy
Truthy(v) == v.t = "string" /\ Len(v.s) > 0

Hel == <<"H", "e", "l">>
lo == <<"l", "o">>
Hello == <<"H", "e", "l", "l", "o">>

\* the text chunks a stream reader decodes
ChunkValues == {Hel, lo}
\* the arguments of sendClipboard
SendTexts == {Undefined, Str(<<>>), Str(lo)}

TextPlain == <<"t", "e", "x", "t", "/", "p", "l", "a", "i", "n">>
RichText == <<"r", "i", "c", "h", "t", "e", "x", "t", "/", "x">>
MimeTypes == {TextPlain, ImagePng, RichText}

TextPrefix == <<"t", "e", "x", "t", "/">>

\* /^text\//.exec(mimetype), line 140
IsTextMime_Unanchored(mimetype) ==
    \E i \in 1..Len(mimetype) :
        /\ i + Len(TextPrefix) - 1 <= Len(mimetype)
        /\ SubSeq(mimetype, i, i + Len(TextPrefix) - 1) = TextPrefix
IsTextMime(mimetype) ==
    /\ Len(mimetype) >= Len(TextPrefix)
    /\ SubSeq(mimetype, 1, Len(TextPrefix)) = TextPrefix

StreamIds == 1..MaxStreams

RECURSIVE SumLen(_, _)
SumLen(strs, n) == IF n = 0 THEN 0 ELSE Len(strs[n].chunks) + SumLen(strs, n - 1)
\* chunks delivered by the streams that are open
InFlight(strs) == SumLen(strs, MaxStreams)

\* A stream handed to handleClipboard: open, its MIME type, whether it has a
\* StringReader (reader), the reader's accumulator (data) and, as history, the
\* chunks the stream delivered so far (chunks).  Closed is a stream index
\* that is not in use: never opened, ended, or opened while client.onclipboard
\* was unbound, when nothing of the service hears of the stream
Closed == [open |-> FALSE, mimetype |-> <<>>, reader |-> FALSE, data |-> <<>>, chunks |-> <<>>]

\* handleClipboard, lines 138-150: a text stream gets a StringReader with its
\* own accumulator data = ''; any other stream gets nothing
handleClipboard(strs, s, mimetype) ==
    [strs EXCEPT ![s] = [open |-> TRUE, mimetype |-> mimetype,
                         reader |-> IsTextMime(mimetype),
                         data |-> <<>>, chunks |-> <<>>]]

\* reader.ontext = (text) => data += text, line 145
ontext_Shared(strs, s, text) ==
    [t \in DOMAIN strs |->
        IF strs[t].reader THEN [strs[t] EXCEPT !.data = @ \o text] ELSE strs[t]]
ontext_Prepend(strs, s, text) == [strs EXCEPT ![s].data = text \o @]
ontext(strs, s, text) == [strs EXCEPT ![s].data = @ \o text]

\* replay depth of the clipboard channel: new ReplaySubject(1), line 52
ReplayDepth == 1

\* ReplaySubject.next(v): the buffer keeps the last ReplayDepth values
Next_onClipboard_KeepAll(buf, v) == Append(buf, v)
Next_onClipboard(buf, v) ==
    LET b == Append(buf, v)
    IN  IF Len(b) > ReplayDepth THEN SubSeq(b, Len(b) - ReplayDepth + 1, Len(b)) ELSE b

\* reader.onend = () => this.onClipboard.next(data), line 148: the effects
onend_PerChunk(strs, s) == [i \in 1..Len(strs[s].chunks) |-> Eff("clip", Str(strs[s].chunks[i]))]
onend(strs, s) == <<Eff("clip", Str(strs[s].data))>>

\* sendClipboard, lines 156-161: the effects
sendClipboard_EngineFirst(text) ==
    IF Truthy(text) THEN <<Eff("client.setClipboard", text), Eff("clip", text)>> ELSE <<>>
sendClipboard(text) ==
    IF Truthy(text) THEN <<Eff("clip", text), Eff("client.setClipboard", text)>> ELSE <<>>

RECURSIVE PublishAll(_, _)
\* the clipboard buffer after the payloads ps were published in order
PublishAll(buf, ps) ==
    IF ps = <<>> THEN buf ELSE PublishAll(Next_onClipboard(buf, Head(ps)), Tail(ps))

RECURSIVE WithClipDeliveries(_)
\* ReplaySubject.next(v) hands v to every current subscriber, in subscription
\* order: the effects effs with those deliveries after each publication
WithClipDeliveries(effs) ==
    IF effs = <<>> THEN <<>>
    ELSE LET x == Head(effs)
         IN  <<x>>
             \o (IF x.e = "clip"
                 THEN [i \in 1..Len(clipSubs) |-> Eff("clip.recv", <<clipSubs[i], x.a>>)]
                 ELSE <<>>)
             \o WithClipDeliveries(Tail(effs))

\* ReplaySubject.subscribe(): the buffer is replayed to the new subscriber u
Replay(buf, u) == [i \in 1..Len(buf) |-> Eff("clip.recv", <<u, buf[i]>>)]

RECURSIVE Concat(_)
\* c1 ++ ... ++ cn
Concat(cs) == IF cs = <<>> THEN <<>> ELSE Head(cs) \o Concat(Tail(cs))

----------------------------------------------------------------------------
(* State after construction, lines 50-77 *)

\* new RemoteDesktopClient(url, options), lines 74-77, with the options
\* object the caller wrote the entries ins into, on the display scr
Construct(ins, scr) ==
    /\ options = ObjectLiteral(ins)
    /\ inserted = ins
    /\ screen = scr
    /\ state = stateInitial
    /\ onStateChange = onStateChangeInitial
    /\ onClipboard = <<>>
    /\ slots = [n \in SlotNames |-> FALSE]
    /\ streams = [s \in StreamIds |-> Closed]
    /\ stateSubs = <<>>
    /\ clipSubs = <<>>
    /\ lastClip = <<>>
    /\ errored = <<>>
    /\ applied = <<>>
    /\ published = FALSE
    /\ op = [name |-> "new", arg |-> None, bound |-> FALSE, sync |-> <<>>]
    /\ preState = stateInitial
    /\ trace = <<>>

\* new RemoteDesktopClient(url): options = {}
Init == Construct(<<>>, DefaultScreen)

\* new RemoteDesktopClient(url, options) on any display
InitConfig == \E ins \in OptionInsertions, scr \in Screens : Construct(ins, scr)

Op(name, arg, bound, sync) == [name |-> name, arg |-> arg, bound |-> bound, sync |-> sync]

\* the five slots hold handlers
Bound(sl) == \A n \in SlotNames : sl[n]

Cur == Machine(state, onStateChange, slots, <<>>)

\* the clipboard channel after the effects effs of an operation
CommitClip(effs) ==
    LET ps == ClipPublished(effs)
    IN  /\ onClipboard' = PublishAll(onClipboard, ps)
        /\ lastClip' = IF ps = <<>> THEN lastClip ELSE <<ps[Len(ps)]>>

\* nothing is published on the clipboard channel
NoClip == UNCHANGED <<onClipboard, lastClip>>

----------------------------------------------------------------------------
(* The transition table of the specification, for the history variable     *)
(* applied                                                                  *)

\* the transition table: the state a raw state event names, if it names one
TableRow(ev) ==
    IF ev.src = "client"
    THEN CASE ev.code = 0 -> <<"IDLE">>
           [] ev.code = 2 -> <<"WAITING">>
           [] ev.code = 3 -> <<"CONNECTED">>
           [] OTHER -> <<>>
    ELSE CASE ev.code = 1 -> <<"CONNECTING">>
           [] ev.code = 2 -> <<"DISCONNECTED">>
           [] OTHER -> <<>>

RECURSIVE TableImage(_)
\* the states a sequence of raw state events names, in order
TableImage(evs) == IF evs = <<>> THEN <<>> ELSE TableRow(Head(evs)) \o TableImage(Tail(evs))

Last(q) == q[Len(q)]

ErrorOps == {"client.onerror", "tunnel.onerror"}

IsRaw(x) == x.e = "raw"
\* the raw state events the bound state handlers handled in the last
\* operation, in order
Handled(tr) ==
    LET raws == SelectSeq(tr, IsRaw) IN [i \in 1..Len(raws) |-> raws[i].a]

\* the error state of an error slot
ErrorState(name) == IF name = "client.onerror" THEN "CLIENT_ERROR" ELSE "TUNNEL_ERROR"

\* the states named by the rows of the events handled in an operation o with
\* the effects tr, in the order of handling: the raw state events handled by
\* bound state handlers, then the error if o is a bound error handler
RowsOf(tr, o) ==
    TableImage(Handled(tr))
    \o (IF o.name \in ErrorOps /\ o.bound THEN <<ErrorState(o.name)>> ELSE <<>>)

----------------------------------------------------------------------------
(* The frame of every operation *)

\* the service after the operation o, which took it to after
Commit(after, o) ==
    \E m \in {after} :
    /\ state' = m.state
    /\ onStateChange' = m.chan
    /\ slots' = m.slots
    /\ trace' = m.trace
    /\ published' = (published \/ Published(m.trace) # <<>>)
    /\ op' = o
    /\ preState' = state
    /\ errored' = CASE o.name = "connect" -> <<>>
                   [] o.name = "client.onerror" /\ o.bound /\ errored = <<>> ->
                        <<STATES.CLIENT_ERROR>>
                   [] o.name = "tunnel.onerror" /\ o.bound /\ errored = <<>> ->
                        <<STATES.TUNNEL_ERROR>>
                   [] OTHER -> errored
    /\ applied' = IF RowsOf(m.trace, o) = <<>> THEN applied
                  ELSE <<Last(RowsOf(m.trace, o))>>
    /\ UNCHANGED <<options, inserted, screen>>

----------------------------------------------------------------------------
(* Operations of the caller *)

\* connect(), lines 170-174
Connect(syncs) ==
    \E configuration \in {buildConfiguration}, sync \in syncs :
        /\ Commit(connect(Cur, configuration, sync), Op("connect", None, Bound(slots), sync))
        /\ NoClip /\ UNCHANGED <<streams, stateSubs, clipSubs>>

\* disconnect(), lines 163-165
Disconnect ==
    \E sync \in SyncDeliveries :
        /\ Commit(disconnect(Cur, sync), Op("disconnect", None, TRUE, sync))
        /\ NoClip /\ UNCHANGED <<streams, stateSubs, clipSubs>>

\* sendClipboard(text), lines 156-161
SendClipboard ==
    \E text \in SendTexts :
        LET effs == sendClipboard(text)
        IN  /\ Commit([Cur EXCEPT !.trace = WithClipDeliveries(effs)],
                      Op("sendClipboard", text, TRUE, <<>>))
            /\ CommitClip(effs)
            /\ UNCHANGED <<streams, stateSubs, clipSubs>>

\* onStateChange.subscribe(): the BehaviorSubject replays its value at once
SubscribeState ==
    \E u \in Subscribers :
        /\ \A i \in 1..Len(stateSubs) : stateSubs[i] # u
        /\ stateSubs' = Append(stateSubs, u)
        /\ Commit([Cur EXCEPT !.trace = <<Eff("recv", <<u, onStateChange>>)>>],
                  Op("onStateChange.subscribe", u, TRUE, <<>>))
        /\ NoClip /\ UNCHANGED <<streams, clipSubs>>

\* subscription.unsubscribe()
UnsubscribeState ==
    \E i \in 1..Len(stateSubs) :
        /\ stateSubs' = SubSeq(stateSubs, 1, i - 1) \o SubSeq(stateSubs, i + 1, Len(stateSubs))
        /\ Commit(Cur, Op("onStateChange.unsubscribe", stateSubs[i], TRUE, <<>>))
        /\ NoClip /\ UNCHANGED <<streams, clipSubs>>

\* onClipboard.subscribe(): the ReplaySubject replays its buffer at once
SubscribeClipboard ==
    \E u \in Subscribers :
        /\ \A i \in 1..Len(clipSubs) : clipSubs[i] # u
        /\ clipSubs' = Append(clipSubs, u)
        /\ Commit([Cur EXCEPT !.trace = Replay(onClipboard, u)],
                  Op("onClipboard.subscribe", u, TRUE, <<>>))
        /\ NoClip /\ UNCHANGED <<streams, stateSubs>>

\* subscription.unsubscribe()
UnsubscribeClipboard ==
    \E i \in 1..Len(clipSubs) :
        /\ clipSubs' = SubSeq(clipSubs, 1, i - 1) \o SubSeq(clipSubs, i + 1, Len(clipSubs))
        /\ Commit(Cur, Op("onClipboard.unsubscribe", clipSubs[i], TRUE, <<>>))
        /\ NoClip /\ UNCHANGED <<streams, stateSubs>>

\* the display changes its geometry: window.screen is read at each
\* connect(), lines 185-187
ScreenChange ==
    \E scr \in Screens :
        /\ scr # screen
        /\ screen' = scr
        /\ op' = Op("screen", scr, TRUE, <<>>)
        /\ preState' = state
        /\ trace' = <<>>
        /\ UNCHANGED <<state, onStateChange, onClipboard, slots, streams, options,
                       stateSubs, clipSubs, lastClip, errored, applied, inserted, published>>

----------------------------------------------------------------------------
(* Callbacks of the engine, the tunnel and the stream readers *)

\* the engine fires client.onstatechange(code)
ClientStateChange ==
    \E code \in ClientCodes :
        /\ Commit(Deliver(Cur, Raw("client", code)),
                  Op("client.onstatechange", code, slots["client.onstatechange"], <<>>))
        /\ NoClip /\ UNCHANGED <<streams, stateSubs, clipSubs>>

\* the tunnel fires tunnel.onstatechange(code)
TunnelStateChange ==
    \E code \in TunnelCodes :
        /\ Commit(Deliver(Cur, Raw("tunnel", code)),
                  Op("tunnel.onstatechange", code, slots["tunnel.onstatechange"], <<>>))
        /\ NoClip /\ UNCHANGED <<streams, stateSubs, clipSubs>>

\* the engine fires client.onerror(status)
ClientError ==
    \E sync \in SyncDeliveries :
        /\ slots["client.onerror"] \/ sync = <<>>
        /\ Commit(IF slots["client.onerror"] THEN handleClientError(Cur, sync) ELSE Cur,
                  Op("client.onerror", None, slots["client.onerror"], sync))
        /\ NoClip /\ UNCHANGED <<streams, stateSubs, clipSubs>>

\* the tunnel fires tunnel.onerror(status)
TunnelError ==
    \E sync \in SyncDeliveries :
        /\ slots["tunnel.onerror"] \/ sync = <<>>
        /\ Commit(IF slots["tunnel.onerror"] THEN handleTunnelError(Cur, sync) ELSE Cur,
                  Op("tunnel.onerror", None, slots["tunnel.onerror"], sync))
        /\ NoClip /\ UNCHANGED <<streams, stateSubs, clipSubs>>

\* the engine opens an inbound clipboard stream and fires
\* client.onclipboard(stream, mimetype)
ClientClipboard(ids) ==
    \E s \in ids, mimetype \in MimeTypes :
        /\ ~streams[s].open
        /\ streams' = IF slots["client.onclipboard"]
                      THEN handleClipboard(streams, s, mimetype)
                      ELSE streams
        /\ Commit(Cur, Op("client.onclipboard", [id |-> s, mimetype |-> mimetype],
                       slots["client.onclipboard"], <<>>))
        /\ NoClip /\ UNCHANGED <<stateSubs, clipSubs>>

\* stream s delivers a chunk: its reader, if it has one, fires ontext(text)
StreamText(ids) ==
    \E s \in ids, text \in ChunkValues :
        /\ streams[s].open
        /\ InFlight(streams) < MaxChunks
        /\ LET got == [streams EXCEPT ![s].chunks = Append(@, text)]
           IN  streams' = IF streams[s].reader THEN ontext(got, s, text) ELSE got
        /\ Commit(Cur, Op("reader.ontext", [id |-> s, text |-> text], streams[s].reader, <<>>))
        /\ NoClip /\ UNCHANGED <<stateSubs, clipSubs>>

\* stream s ends: its reader, if it has one, fires onend(); the engine
\* closes the stream, whose index is free again
StreamEnd(ids) ==
    \E s \in ids :
        /\ streams[s].open
        /\ LET effs == IF streams[s].reader THEN onend(streams, s) ELSE <<>>
           IN  /\ Commit([Cur EXCEPT !.trace = WithClipDeliveries(effs)],
                         Op("reader.onend", streams[s] @@ [id |-> s], streams[s].reader, <<>>))
               /\ CommitClip(effs)
        /\ streams' = [streams EXCEPT ![s] = Closed]
        /\ UNCHANGED <<stateSubs, clipSubs>>

\* the connection life cycle: the caller, the engine and the tunnel
Next ==
    \/ Connect(SyncDeliveries)
    \/ Disconnect
    \/ SendClipboard
    \/ SubscribeState
    \/ UnsubscribeState
    \/ ClientStateChange
    \/ TunnelStateChange
    \/ ClientError
    \/ TunnelError

Spec == Init /\ [][Next]_vars

\* the clipboard: inbound streams of the engine and sendClipboard, with an
\* engine whose connect call returns before it fires any slot
NextClip ==
    \/ Connect({<<>>})
    \/ SendClipboard
    \/ ClientClipboard(StreamIds)
    \/ StreamText(StreamIds)
    \/ StreamEnd(StreamIds)

SpecClip == Init /\ [][NextClip]_vars

\* the binding of the slots: what the engine, the tunnel and one clipboard
\* stream deliver before, during and after connect()
NextBind ==
    \/ Connect(SyncDeliveries)
    \/ ClientStateChange
    \/ TunnelStateChange
    \/ ClientError
    \/ TunnelError
    \/ ClientClipboard({1})
    \/ StreamEnd({1})

SpecBind == Init /\ [][NextBind]_vars

\* the clipboard channel and its subscribers: payloads of one inbound stream
\* and of sendClipboard
NextReplay ==
    \/ Connect({<<>>})
    \/ SendClipboard
    \/ ClientClipboard({1})
    \/ StreamText({1})
    \/ StreamEnd({1})
    \/ SubscribeClipboard
    \/ UnsubscribeClipboard

SpecReplay == Init /\ [][NextReplay]_vars

\* every method of the service and every callback of the engine and the
\* tunnel, with one inbound stream and no subscriber
NextService ==
    \/ Connect(SyncDeliveries)
    \/ Disconnect
    \/ SendClipboard
    \/ ClientStateChange
    \/ TunnelStateChange
    \/ ClientError
    \/ TunnelError
    \/ ClientClipboard({1})
    \/ StreamEnd({1})

SpecService == Init /\ [][NextService]_vars

\* the handshake configuration: a service constructed with any options
\* object, on a display whose geometry changes between calls of connect()
NextConfig ==
    \/ Connect({<<>>})
    \/ ScreenChange

SpecConfig == InitConfig /\ [][NextConfig]_vars

----------------------------------------------------------------------------
(* Properties *)

RawStateOps == {"client.onstatechange", "tunnel.onstatechange"}

\* C1: a raw client code 0..5 delivered to the bound client state handler
\* publishes exactly its image under 0 -> Idle, 2 -> Waiting, 3 -> Connected
\* and makes it the current state; codes 1, 4 and 5 publish nothing and leave
\* the current state as it was.
C1_ClientCodesPublishTheirImage ==
    (op.name = "client.onstatechange" /\ op.bound /\ op.arg \in 0..5) =>
        LET image == CASE op.arg = 0 -> <<"IDLE">>
                       [] op.arg = 2 -> <<"WAITING">>
                       [] op.arg = 3 -> <<"CONNECTED">>
                       [] op.arg \in {1, 4, 5} -> <<>>
        IN  /\ Published(trace) = image
            /\ image = <<>> => state = preState
            /\ image # <<>> => state = image[1] /\ onStateChange = image[1]

C1_Witness ==
    /\ op.name = "client.onstatechange" /\ op.bound /\ op.arg = 2
    /\ preState = "CONNECTING"
    /\ Published(trace) = <<"WAITING">>
    /\ state = "WAITING"

\* C2 as stated: an error handler invokes the engine's disconnect before it
\* publishes its error state, and publishes no other state in between.
C2_NothingBetweenDisconnectAndError ==
    (op.name \in ErrorOps /\ op.bound) =>
        LET err == IF op.name = "client.onerror" THEN "CLIENT_ERROR" ELSE "TUNNEL_ERROR"
        IN  \E d \in Positions(trace, "client.disconnect"), p \in Positions(trace, "pub") :
                /\ d < p
                /\ trace[p].a = err
                /\ \A q \in Positions(trace, "pub") : (d < q /\ q <= p) => q = p

\* C2 amended: an error handler invokes the engine's disconnect once, first,
\* and publishes its error state last; the states published in between are
\* exactly those named by the raw state events the engine delivers to the
\* bound handlers during the disconnect call (none when it delivers none).
C2_DisconnectThenErrorLast ==
    (op.name \in ErrorOps /\ op.bound) =>
        LET err == IF op.name = "client.onerror" THEN "CLIENT_ERROR" ELSE "TUNNEL_ERROR"
        IN  /\ Positions(trace, "client.disconnect") = {1}
            /\ Published(trace) = TableImage(op.sync) \o <<err>>
            /\ Last(trace).e \in {"pub", "recv"}
            /\ state = err
            /\ onStateChange = err

C2_Witness ==
    /\ op.name = "tunnel.onerror" /\ op.bound
    /\ op.sync = <<Raw("tunnel", 2)>>
    /\ Published(trace) = <<"DISCONNECTED", "TUNNEL_ERROR">>

\* C3 as stated: connect() issues the engine's connect and then binds the
\* slots, and no raw event delivered before the binding step of a connect()
\* call, also during its engine connect call, changes the state or publishes.
C3_NothingHandledBeforeBinding ==
    /\ op.name = "connect" =>
        /\ Positions(trace, "client.connect") = {1}
        /\ Positions(trace, "bind") = {Len(trace)}
        /\ state = preState
        /\ Published(trace) = <<>>
        /\ ClipPublished(trace) = <<>>
    /\ (op.name \in RawStateOps \cup ErrorOps /\ ~op.bound) =>
        /\ state = preState
        /\ Published(trace) = <<>>
        /\ ClipPublished(trace) = <<>>

\* C3 amended: connect() issues the engine's connect and then binds the five
\* slots; a raw state, error or clipboard event delivered before the first
\* binding (before any connect(), or during the engine's connect call of the
\* first connect()) is dropped: no state change, no publication on either
\* channel, no reader for the stream.
C3_NothingHandledBeforeFirstBinding ==
    /\ Bound(slots) \/ \A n \in SlotNames : ~slots[n]
    /\ op.name = "connect" =>
        /\ Positions(trace, "client.connect") = {1}
        /\ Positions(trace, "bind") = {Len(trace)}
        /\ Bound(slots)
        /\ ClipPublished(trace) = <<>>
        /\ ~op.bound =>
            /\ Positions(trace, "raw") = {}
            /\ state = preState
            /\ Published(trace) = <<>>
    /\ (op.name \in RawStateOps \cup ErrorOps /\ ~op.bound) =>
        /\ state = preState
        /\ Published(trace) = <<>>
        /\ ClipPublished(trace) = <<>>
        /\ Positions(trace, "client.disconnect") = {}
    /\ (op.name = "client.onclipboard" /\ ~op.bound) =>
        /\ ~streams[op.arg.id].open
        /\ ~streams[op.arg.id].reader
        /\ state = preState
        /\ trace = <<>>

C3_Witness ==
    /\ op.name = "connect" /\ ~op.bound
    /\ op.sync = <<Raw("tunnel", 1)>>
    /\ trace = <<Eff("client.connect", buildConfiguration),
                 Eff("dropped", Raw("tunnel", 1)), Eff("bind", None)>>
    /\ state = "IDLE"

\* the MIME types of the model that begin with text/, and the others
TextMimes == {TextPlain}
OtherMimes == {ImagePng, RichText}

\* C4: when a text stream handed to handleClipboard ends after chunks
\* c1..cn (n >= 0), exactly one payload is published on the clipboard channel
\* and it is c1 ++ ... ++ cn in arrival order ("Hel", "lo" yield "Hello").
C4_TextStreamPublishesConcatenation ==
    (op.name = "reader.onend" /\ op.arg.mimetype \in TextMimes) =>
        /\ ClipPublished(trace) = <<Str(Concat(op.arg.chunks))>>
        /\ onClipboard = <<Str(Concat(op.arg.chunks))>>

C4_Witness ==
    /\ op.name = "reader.onend"
    /\ op.arg.mimetype = TextPlain
    /\ op.arg.chunks = <<Hel, lo>>
    /\ ClipPublished(trace) = <<Str(Hello)>>

\* C5: every payload published on the clipboard channel is the concatenation
\* of all the chunks of a text stream, published when the stream ends, or the
\* argument of a sendClipboard call; opening a stream and delivering a chunk
\* publish nothing.
C5_NoPartialClipboard ==
    /\ \A i \in 1..Len(ClipPublished(trace)) :
        \/ /\ op.name = "reader.onend"
           /\ op.arg.mimetype \in TextMimes
           /\ ClipPublished(trace)[i] = Str(Concat(op.arg.chunks))
        \/ /\ op.name = "sendClipboard"
           /\ ClipPublished(trace)[i] = op.arg
    /\ op.name \in {"reader.ontext", "client.onclipboard"} => trace = <<>>
    /\ Len(onClipboard) <= 1

C5_Witness ==
    /\ op.name = "reader.ontext" /\ op.bound
    /\ streams[op.arg.id].mimetype = TextPlain
    /\ streams[op.arg.id].chunks = <<Hel, lo>>
    /\ trace = <<>>
    /\ onClipboard = <<>>

\* C6: while two or more text streams have readers, each reader's accumulator
\* holds exactly its own stream's chunks in arrival order, and the payload
\* published when one of them ends is exactly that stream's chunks.
C6_StreamsDoNotInterleave ==
    /\ \A s \in StreamIds : streams[s].reader => streams[s].data = Concat(streams[s].chunks)
    /\ (/\ op.name = "reader.onend" /\ op.bound
        /\ \E t \in StreamIds : streams[t].reader) =>
            ClipPublished(trace) = <<Str(Concat(op.arg.chunks))>>

C6_Witness ==
    /\ op.name = "reader.onend" /\ op.bound
    /\ op.arg.chunks = <<Hel>>
    /\ \E t \in StreamIds : streams[t].reader /\ streams[t].chunks = <<lo>>
    /\ ClipPublished(trace) = <<Str(Hel)>>

\* C7: a stream whose MIME type does not begin with text/ gets no reader, and
\* neither opening it, nor its chunks, nor its end publishes anything or
\* changes the application state.
C7_NonTextStreamIgnored ==
    /\ (op.name = "client.onclipboard" /\ op.arg.mimetype \in OtherMimes) =>
        /\ ~streams[op.arg.id].reader
        /\ trace = <<>>
        /\ state = preState
    /\ (op.name = "reader.ontext" /\ streams[op.arg.id].mimetype \in OtherMimes) =>
        /\ ~op.bound
        /\ streams[op.arg.id].data = <<>>
        /\ trace = <<>>
        /\ state = preState
    /\ (op.name = "reader.onend" /\ op.arg.mimetype \in OtherMimes) =>
        /\ ~op.bound
        /\ trace = <<>>
        /\ state = preState

C7_Witness ==
    /\ op.name = "reader.onend"
    /\ op.arg.mimetype = ImagePng
    /\ op.arg.chunks = <<Hel, lo>>
    /\ trace = <<>>
    /\ onClipboard = <<>>

IsAct(x) == x.e \notin {"recv", "clip.recv"}
\* the effects of the last operation other than deliveries to subscribers
Acts(tr) == SelectSeq(tr, IsAct)

\* C8: sendClipboard(text) with a non-empty string publishes text on the
\* clipboard channel and then calls the engine's setClipboard(text), and does
\* nothing else; with an empty or absent text it does nothing; the
\* application state is unchanged either way.
C8_SendClipboardEchoThenEngine ==
    op.name = "sendClipboard" =>
        /\ (op.arg.t = "string" /\ op.arg.s # <<>>) =>
            /\ Acts(trace) = <<Eff("clip", op.arg), Eff("client.setClipboard", op.arg)>>
            /\ onClipboard = <<op.arg>>
        /\ (op.arg.t # "string" \/ op.arg.s = <<>>) => trace = <<>>
        /\ state = preState
        /\ Published(trace) = <<>>

C8_Witness ==
    /\ op.name = "sendClipboard"
    /\ op.arg = Str(lo)
    /\ preState = "CONNECTED"
    /\ state = "CONNECTED"
    /\ Acts(trace) = <<Eff("clip", Str(lo)), Eff("client.setClipboard", Str(lo))>>

C10_FirstSubscriberReceivesConnecting ==
    ~published =>
        /\ getState = "IDLE"
        /\ onStateChange = "CONNECTING"
        /\ op.name = "onStateChange.subscribe" =>
            trace = <<Eff("recv", <<op.arg, "CONNECTING">>)>>

C10_Witness ==
    /\ ~published
    /\ op.name = "onStateChange.subscribe"
    /\ trace = <<Eff("recv", <<1, "CONNECTING">>)>>
    /\ getState = "IDLE"

\* C11: the clipboard channel starts empty and replays exactly one payload: a
\* subscriber that joins before any payload was published receives nothing on
\* subscribing, and one that joins after one or more payloads (of inbound
\* streams or of sendClipboard) receives the most recent payload and no other.
C11_ReplayOnlyMostRecent ==
    /\ lastClip = <<>> => onClipboard = <<>>
    /\ op.name = "onClipboard.subscribe" =>
        trace = IF lastClip = <<>>
                THEN <<>>
                ELSE <<Eff("clip.recv", <<op.arg, lastClip[1]>>)>>

C11_Witness ==
    /\ op.name = "onClipboard.subscribe"
    /\ lastClip = <<Str(Hello)>>
    /\ trace = <<Eff("clip.recv", <<1, Str(Hello)>>)>>

\* the operations that are no handler of a raw state event or of an error
OtherOps == {"connect", "disconnect", "sendClipboard", "client.onclipboard", "reader.onend"}

\* C12 as stated: the current state differs before and after a step only if
\* the step is a bound state handler or error handler; connect(), the
\* caller's disconnect(), sendClipboard() and the clipboard stream handling
\* leave the current state unchanged and publish nothing on the state channel.
C12_OnlyHandlerStepsChangeState ==
    /\ state # preState => (op.name \in RawStateOps \cup ErrorOps /\ op.bound)
    /\ op.name \in OtherOps => (state = preState /\ Published(trace) = <<>>)

\* C12: the current state changes only by the rows of the transition table:
\* the states an operation publishes are exactly those named by the rows of
\* the raw state events that bound handlers handled during it, followed by
\* the error state if it is a bound error handler, and the current state
\* afterwards is the last of them, or unchanged if there is none. connect(),
\* the caller's disconnect(), sendClipboard() and the clipboard stream
\* handling set no state themselves: during them the state changes only
\* where the engine fires a bound state handler before its call returns.
C12_StateChangesOnlyByTableRows ==
    LET rows == RowsOf(trace, op)
    IN  /\ Published(trace) = rows
        /\ state = IF rows = <<>> THEN preState ELSE Last(rows)
        /\ onStateChange = IF rows = <<>> THEN onStateChange ELSE Last(rows)
        /\ (op.name \in OtherOps /\ Handled(trace) = <<>>) =>
               (state = preState /\ Published(trace) = <<>>)
        /\ op.name \in {"sendClipboard", "client.onclipboard", "reader.onend"} =>
               (state = preState /\ Published(trace) = <<>>)

C12_Witness ==
    /\ op.name = "disconnect"
    /\ op.sync = <<Raw("tunnel", 2)>>
    /\ preState = "CONNECTED"
    /\ Handled(trace) = <<Raw("tunnel", 2)>>
    /\ Published(trace) = <<"DISCONNECTED">>
    /\ state = "DISCONNECTED"

\* C13 as stated: once an error handler has set its error state, the current
\* state stays that error state whatever raw state code or error is delivered
\* afterwards, until connect() is called again.
C13_ErrorStateKeptUntilConnect ==
    errored # <<>> => state = errored[1]

\* the engine delivers a raw state event or an error; the tunnel does
ClientStep == ClientStateChange \/ ClientError
TunnelStep == TunnelStateChange \/ TunnelError

\* C14: no state is terminal for the object: in every reachable state, the
\* error states and Disconnected included, connect() can be called and
\* leaves the five slots bound, and once they are bound each of the seven
\* application states is the outcome of some raw event: Idle, Waiting,
\* Connected and ClientError of an event of the engine, Connecting,
\* Disconnected and TunnelError of an event of the tunnel.
C14_NoStateIsTerminal ==
    /\ ENABLED (Connect(SyncDeliveries) /\ Bound(slots'))
    /\ Bound(slots) =>
        /\ \A s \in {"IDLE", "WAITING", "CONNECTED", "CLIENT_ERROR"} :
               ENABLED (ClientStep /\ state' = s)
        /\ \A s \in {"CONNECTING", "DISCONNECTED", "TUNNEL_ERROR"} :
               ENABLED (TunnelStep /\ state' = s)
        /\ AppStates = {"IDLE", "WAITING", "CONNECTED", "CLIENT_ERROR",
                        "CONNECTING", "DISCONNECTED", "TUNNEL_ERROR"}

C14_Witness ==
    /\ op.name = "tunnel.onstatechange" /\ op.arg = 1
    /\ errored = <<"TUNNEL_ERROR">>
    /\ preState = "TUNNEL_ERROR"
    /\ state = "CONNECTING"

\* the configuration the last connect() handed to the engine
Configuration == trace[1].a

RECURSIVE Overlay(_, _)
\* the entries list overlaid with the entries es in their order: an entry
\* whose key is in the list replaces the value at its place, another one is
\* appended
Overlay(list, es) ==
    IF es = <<>> THEN list
    ELSE LET e == Head(es)
             at == {i \in 1..Len(list) : list[i].key = e.key}
         IN  Overlay(IF at = {} THEN Append(list, e)
                     ELSE [i \in 1..Len(list) |-> IF i \in at THEN e ELSE list[i]],
                     Tail(es))

\* the query string of a list of entries
QueryOf(list) ==
    ParamsToString([i \in 1..Len(list) |->
                       Entry(list[i].key, ToUSVString(list[i].value))])

RECURSIVE Split(_, _)
\* the pieces of str between the occurrences of the character c
Split(str, c) ==
    IF \A i \in 1..Len(str) : str[i] # c THEN <<str>>
    ELSE LET at == CHOOSE i \in 1..Len(str) :
                       str[i] = c /\ \A j \in 1..(i - 1) : str[j] # c
         IN  <<SubSeq(str, 1, at - 1)>> \o Split(SubSeq(str, at + 1, Len(str)), c)

\* the names of the pairs of a query string, in order
NamesOf(query) ==
    LET pairs == Split(query, "&") IN [i \in 1..Len(pairs) |-> Split(pairs[i], "=")[1]]

EachKeyOnce(query) ==
    LET names == NamesOf(query)
    IN  \A i, j \in 1..Len(names) : names[i] = names[j] => i = j

IsIndexEntry(e) == IsArrayIndex(e.key)
IsPlainEntry(e) == ~IsArrayIndex(e.key)

RECURSIVE Ascending(_, _)
\* the entries of es whose keys denote the numbers of ns, in ascending
\* order of the numbers, each with the value written last
Ascending(ns, es) ==
    IF ns = {} THEN <<>>
    ELSE LET n == CHOOSE x \in ns : \A y \in ns : x <= y
             HasKey(e) == IsArrayIndex(e.key) /\ IndexOf(e.key) = n
             written == SelectSeq(es, HasKey)
         IN  <<written[Len(written)]>> \o Ascending(ns \ {n}, es)

C16_UnknownCodesAreIgnored ==
    /\ (op.name = "tunnel.onstatechange" /\ op.bound) =>
        CASE op.arg = 1 ->
               /\ Acts(trace) = <<Eff("raw", Raw("tunnel", 1)), Eff("pub", "CONNECTING")>>
               /\ state = "CONNECTING" /\ onStateChange = "CONNECTING"
          [] op.arg = 2 ->
               /\ Acts(trace) = <<Eff("raw", Raw("tunnel", 2)), Eff("pub", "DISCONNECTED")>>
               /\ state = "DISCONNECTED" /\ onStateChange = "DISCONNECTED"
          [] OTHER ->
               /\ Acts(trace) = <<Eff("raw", Raw("tunnel", op.arg))>>
               /\ state = preState
    /\ (op.name = "client.onstatechange" /\ op.bound /\ op.arg \notin 0..5) =>
        /\ Acts(trace) = <<Eff("raw", Raw("client", op.arg))>>
        /\ state = preState

C16_Witness ==
    /\ op.name = "tunnel.onstatechange" /\ op.bound /\ op.arg = 3
    /\ preState = "CONNECTED"
    /\ state = "CONNECTED"
    /\ onStateChange = "CONNECTED"
    /\ trace = <<Eff("raw", Raw("tunnel", 3))>>

\* the raw state event of the last operation, a delivery to a state slot
RawOfOp == Raw(IF op.name = "client.onstatechange" THEN "client" ELSE "tunnel", op.arg)

\* C17: the state channel does not suppress duplicates: a raw event whose
\* table row names a state, handled by its bound handler, causes exactly one
\* publication of that state, received once by every subscriber, also when
\* the state named is the current state.
C17_DuplicatesArePublished ==
    (op.name \in RawStateOps /\ op.bound /\ TableRow(RawOfOp) # <<>>) =>
        LET s == TableRow(RawOfOp)[1]
        IN  trace = <<Eff("raw", RawOfOp), Eff("pub", s)>>
                    \o [i \in 1..Len(stateSubs) |-> Eff("recv", <<stateSubs[i], s>>)]

C17_Witness ==
    /\ op.name = "client.onstatechange" /\ op.bound /\ op.arg = 3
    /\ preState = "CONNECTED"
    /\ stateSubs = <<1>>
    /\ trace = <<Eff("raw", Raw("client", 3)), Eff("pub", "CONNECTED"),
                 Eff("recv", <<1, "CONNECTED">>)>>

\* C18: transitions are last-applied-wins and independent of the prior
\* state: whatever the interleaving of the events of the engine and of the
\* tunnel, the current state is the state named by the table row of the most
\* recently handled event that names one, and the initial state if no such
\* event was handled yet.
C18_LastAppliedWins ==
    state = IF applied = <<>> THEN stateInitial ELSE applied[1]

C18_Witness ==
    /\ op.name = "client.onstatechange" /\ op.bound /\ op.arg = 5
    /\ applied = <<"DISCONNECTED">>
    /\ errored = <<"CLIENT_ERROR">>
    /\ state = "DISCONNECTED"

\* C19: once the state channel was published on, getState() is the value the
\* channel published last and replays to a new subscriber, and isState(s)
\* holds for s = getState() and for no other state; getState() and the value
\* of the channel differ only before the first publication, when they are
\* Idle and Connecting.
C19_GetStateIsTheChannelValue ==
    /\ published => getState = onStateChange
    /\ Published(trace) # <<>> => getState = Last(Published(trace))
    /\ (published /\ op.name = "onStateChange.subscribe") =>
           trace = <<Eff("recv", <<op.arg, getState>>)>>
    /\ \A s \in AppStates : isState(s) <=> s = getState
    /\ getState # onStateChange =>
           (~published /\ getState = "IDLE" /\ onStateChange = "CONNECTING")

C19_Witness ==
    /\ published
    /\ op.name = "onStateChange.subscribe"
    /\ getState = "WAITING"
    /\ isState("WAITING") /\ ~isState("CONNECTING")
    /\ trace = <<Eff("recv", <<1, "WAITING">>)>>

\* C20: when a bound error handler returns, the current state is its error
\* state, ClientError or TunnelError, also when the engine delivered raw state
\* events to the bound handlers during the forced disconnect: the error state
\* is published after disconnect has returned, after every state those
\* events published.
C20_ErrorStateWins ==
    (op.name \in ErrorOps /\ op.bound) =>
        LET pubs == Positions(trace, "pub")
            last == CHOOSE i \in pubs : \A j \in pubs : j <= i
        IN  /\ state = ErrorState(op.name)
            /\ onStateChange = ErrorState(op.name)
            /\ pubs # {}
            /\ trace[last].a = ErrorState(op.name)
            /\ \A j \in Positions(trace, "client.disconnect") \cup Positions(trace, "raw") :
                   j < last
            /\ Len(Handled(trace)) = Len(op.sync)

C20_Witness ==
    /\ op.name = "tunnel.onerror" /\ op.bound
    /\ op.sync = <<Raw("tunnel", 2)>>
    /\ preState = "CONNECTED"
    /\ Published(trace) = <<"DISCONNECTED", "TUNNEL_ERROR">>
    /\ state = "TUNNEL_ERROR"

====
